---------------------------- MODULE Spec2Model ----------------------------
(***************************************************************************)
(* Article content pipeline of src/app/blog/[slug]/page.tsx (BlogPostPage). *)
(*                                                                         *)
(* Representation.  An HTML string is a sequence of tokens: a text run, an *)
(* opening tag or a closing tag.  A tag name and an attribute name are one *)
(* string; a text run and an attribute value are sequences of chunks (short*)
(* strings).  Chunk boundaries are placed where the code's patterns start  *)
(* or end ("http" is a chunk of an href, a blank is a chunk of a text), so *)
(* that startsWith, toLowerCase, the whitespace collapse and the trim are  *)
(* computed on chunks as the code computes them on characters.  Texts hold *)
(* no '<' or '>' and attribute values hold no '>'.                         *)
(***************************************************************************)
EXTENDS Integers, Sequences, FiniteSets, TLC

VARIABLES
    article,        \* the article found for the slug (page.tsx:123)
    internalLinks,  \* typedBlogData.internalLinks (page.tsx:53, 139)
    pc,             \* the position of BlogPostPage
    faqSchema,      \* page.tsx:314
    productSchema,  \* page.tsx:315
    processedHtml,  \* the local of renderArticleContent (page.tsx:161)
    content         \* what renderArticleContent returned (page.tsx:219, 228)

vars == <<article, internalLinks, pc, faqSchema, productSchema, processedHtml, content>>

-----------------------------------------------------------------------------
(* Bounds of the model *)

\* the number of blocks an article body is built from
MaxBlocks == 3

\* the number of blocks of a body of headings and paragraphs
MaxFaqBlocks == 4

\* the number of blocks of a body of markup for the sanitizer
MaxSanBlocks == 2

-----------------------------------------------------------------------------
(* Values *)

\* a string value, or undefined (a field the JSON data does not carry)
Str(toks) == [def |-> TRUE, v |-> toks]
Undefined == [def |-> FALSE, v |-> <<>>]

Text(s) == [t |-> "text", name |-> "", attrs |-> <<>>, slash |-> FALSE, s |-> s]
Open(name, attrs, slash) == [t |-> "open", name |-> name, attrs |-> attrs, slash |-> slash, s |-> <<>>]
Close(name) == [t |-> "close", name |-> name, attrs |-> <<>>, slash |-> FALSE, s |-> <<>>]
\* an attribute as written: name, quoting ("dq", "sq" or "none") and value
Attr(n, q, v) == [n |-> n, q |-> q, v |-> v]

\* String.prototype.toLowerCase on one chunk
LowerSym(c) ==
    CASE c = "H2" -> "h2"
      [] c = "InternalLink" -> "internallink"
      [] c = "INTERNALLINK" -> "internallink"
      [] c = "ID" -> "id"
      [] c = "About" -> "about"
      [] c = "ABOUT" -> "about"
      [] c = "Missing" -> "missing"
      [] c = "HTTP" -> "http"
      [] c = "A" -> "a"
      [] c = "IFRAME" -> "iframe"
      [] c = "HREF" -> "href"
      [] c = "REL" -> "rel"
      [] c = "TARGET" -> "target"
      [] c = "S" -> "s"
      [] OTHER -> c

\* String.prototype.toLowerCase on a string
ToLowerCase(s) == [i \in DOMAIN s |-> LowerSym(s[i])]

\* String.prototype.startsWith
StartsWith(s, p) == Len(s) >= Len(p) /\ SubSeq(s, 1, Len(p)) = p

\* the chunks the regular expressions' \s matches
Whitespace == {" ", "\n"}

SeqsUpTo(S, n) == UNION {[1..k -> S] : k \in 0..n}

RECURSIVE Flatten(_)
Flatten(ss) == IF ss = <<>> THEN <<>> ELSE Head(ss) \o Flatten(Tail(ss))

-----------------------------------------------------------------------------
(* addAsteriskToTopPick, page.tsx:131-136 *)

TopPickPhrase == "Pet Gadget Insider's Top Pick"

\* /(Pet Gadget Insider's Top Pick)/g -> '$1*' on a string of chunks: the
\* phrase is matched wherever it stands, in a text or in an attribute value
AsteriskChunks(s) ==
    Flatten([i \in DOMAIN s |-> IF s[i] = TopPickPhrase THEN <<s[i], "*">> ELSE <<s[i]>>])

AsteriskToken(tok) ==
    [tok EXCEPT !.s = AsteriskChunks(tok.s),
                !.attrs = [i \in DOMAIN tok.attrs |->
                              [tok.attrs[i] EXCEPT !.v = AsteriskChunks(tok.attrs[i].v)]]]

addAsteriskToTopPick(html) == [i \in DOMAIN html |-> AsteriskToken(html[i])]

-----------------------------------------------------------------------------
(* parseInternalLinks, page.tsx:138-157 *)

\* new Map(internalLinks.map(link => [link.id.toLowerCase(), link])).get(key):
\* a later entry with the same lowercased id replaces an earlier one
LinkMapGet(links, key) ==
    LET hits == {i \in DOMAIN links : ToLowerCase(links[i].id) = key}
    IN  IF hits = {} THEN [found |-> FALSE, url |-> <<>>, text |-> <<>>]
        ELSE LET last == CHOOSE i \in hits : \A j \in hits : j <= i
             IN  [found |-> TRUE, url |-> links[last].url, text |-> links[last].text]

\* [^"'\s>]+ : the id is not empty and holds no quote, blank or '>'
IdChars(v) ==
    /\ Len(v) > 0
    /\ \A i \in DOMAIN v : v[i] \notin (Whitespace \cup {"\"", "'", ">"})

\* the pattern without its i flag: only the tag name as the authors spell it
MatchesInternalLinkCaseSensitive(tok) ==
    /\ tok.t = "open"
    /\ tok.name = "InternalLink"
    /\ Len(tok.attrs) = 1
    /\ tok.attrs[1].n = "id"
    /\ tok.attrs[1].q \in {"dq", "sq", "none"}
    /\ IdChars(tok.attrs[1].v)
    /\ tok.slash

\* /<InternalLink\s+id=(["']?)([^"'\s>]+)\1\s*\/>/gi on one tag: the tag name
\* and "id" in any letter case, one attribute, the same quote (or none) on
\* both sides of the id, and the closing "/>"
MatchesInternalLink(tok) ==
    /\ tok.t = "open"
    /\ LowerSym(tok.name) = "internallink"
    /\ Len(tok.attrs) = 1
    /\ LowerSym(tok.attrs[1].n) = "id"
    /\ tok.attrs[1].q \in {"dq", "sq", "none"}
    /\ IdChars(tok.attrs[1].v)
    /\ tok.slash

\* the marker written with the normalized id instead of the id as written
BrokenLinkMarkerLowercased(id) ==
    << Open("span", <<Attr("class", "dq", <<"broken-link">>)>>, FALSE),
       Text(<<"[Broken Link: ">> \o ToLowerCase(id) \o <<"]">>),
       Close("span") >>

\* `<span class="broken-link">[Broken Link: ${id}]</span>`
BrokenLinkMarker(id) ==
    << Open("span", <<Attr("class", "dq", <<"broken-link">>)>>, FALSE),
       Text(<<"[Broken Link: ">> \o id \o <<"]">>),
       Close("span") >>

\* `<a href="${link.url}" class="internal-link">${link.text}</a>`
InternalAnchor(link) ==
    << Open("a", <<Attr("href", "dq", link.url),
                   Attr("class", "dq", <<"internal-link">>)>>, FALSE),
       Text(link.text),
       Close("a") >>

\* the callback looking the id up as written, not in lower case
ReplaceInternalLinkAsWritten(links, id) ==
    LET link == LinkMapGet(links, id)
    IN  IF ~link.found THEN BrokenLinkMarker(id) ELSE InternalAnchor(link)

\* the replacer callback, page.tsx:146-155
ReplaceInternalLink(links, id) ==
    LET normalizedId == ToLowerCase(id)
        link == LinkMapGet(links, normalizedId)
    IN  IF ~link.found THEN BrokenLinkMarker(id) ELSE InternalAnchor(link)

\* html.replace(regex, callback): every match is replaced, the rest is kept
parseInternalLinks(html, links) ==
    Flatten([i \in DOMAIN html |->
                IF MatchesInternalLink(html[i])
                THEN ReplaceInternalLink(links, html[i].attrs[1].v)
                ELSE <<html[i]>>])

-----------------------------------------------------------------------------
(* The heading decorator, page.tsx:167-171 *)

\* /<h2(\s+[^>]*)?>/gi : an opening tag named h2 in any letter case, with or
\* without attributes
MatchesH2Open(tok) == tok.t = "open" /\ LowerSym(tok.name) = "h2"

\* '<h2$1 class="blog-heading">' : the tag is rewritten as "h2", what stood
\* after the name is kept, and a class attribute is appended after it
DecorateH2(tok) ==
    Open("h2", tok.attrs \o <<Attr("class", "dq", <<"blog-heading">>)>>, FALSE)

decorateHeadings(html) ==
    [i \in DOMAIN html |-> IF MatchesH2Open(html[i]) THEN DecorateH2(html[i]) ELSE html[i]]

-----------------------------------------------------------------------------
(* sanitizeHtml(processedHtml, options), page.tsx:173-217.  The library is  *)
(* sanitize-html 2.x: a tag that is not allowed is discarded and its text   *)
(* kept (the text of script, style, textarea and option is discarded too);  *)
(* an attribute is kept when the tag's entry of allowedAttributes names it. *)
(* The bodies of the model close every allowed tag they open, so the        *)
(* parser's own repair of unbalanced markup does not come into play.        *)

\* sanitizeHtml.defaults.allowedTags of sanitize-html 2.x
DefaultAllowedTags ==
    {"address", "article", "aside", "footer", "header", "h1", "h2", "h3", "h4",
     "h5", "h6", "hgroup", "main", "nav", "section", "blockquote", "dd", "div",
     "dl", "dt", "figcaption", "figure", "hr", "li", "ol", "p", "pre", "ul",
     "a", "abbr", "b", "bdi", "bdo", "br", "cite", "code", "data", "dfn", "em",
     "i", "kbd", "mark", "q", "rb", "rp", "rt", "rtc", "ruby", "s", "samp",
     "small", "span", "strong", "sub", "sup", "time", "u", "var", "wbr",
     "caption", "col", "colgroup", "table", "tbody", "td", "tfoot", "th",
     "thead", "tr"}

\* allowedTags, page.tsx:174-177
AllowedTags ==
    DefaultAllowedTags \cup
    {"img", "svg", "path", "line", "rect", "circle", "g", "text", "tspan"}

\* allowedAttributes, page.tsx:178-200; the defaults name only a and img,
\* and both are given anew
AllowedAttributes(name) ==
    CASE name = "a" -> {"href", "name", "target", "class", "rel"}
      [] name = "img" -> {"src", "alt", "width", "height", "class", "style"}
      [] name = "iframe" -> {"src", "width", "height", "frameborder", "allowfullscreen"}
      [] name \in {"div", "span", "h2"} -> {"class", "style"}
      [] name \in {"table", "thead", "tbody", "tr", "th", "td"} -> {"class", "style", "border"}
      [] name = "svg" -> {"width", "height", "viewbox", "xmlns", "class", "style"}
      [] name = "path" -> {"d", "fill", "stroke", "stroke-width", "class", "style"}
      [] name = "line" -> {"x1", "y1", "x2", "y2", "stroke", "stroke-width", "class", "style"}
      [] name = "rect" -> {"x", "y", "width", "height", "rx", "ry", "fill", "stroke",
                           "stroke-width", "class", "style"}
      [] name = "circle" -> {"cx", "cy", "r", "fill", "stroke", "stroke-width", "class", "style"}
      [] name = "g" -> {"transform", "class", "style"}
      [] name = "text" -> {"x", "y", "text-anchor", "class", "style"}
      [] name = "tspan" -> {"x", "y", "dx", "dy", "class", "style"}
      [] OTHER -> {}

\* allowedIframeHostnames, page.tsx:201
AllowedIframeHostnames == {"www.youtube.com", "player.vimeo.com"}

\* the library's default allowedSchemes, as chunks
AllowedSchemes == {<<"http">>, <<"http", "s">>, <<"ftp">>, <<"mailto">>, <<"tel">>}

\* the library's nonTextTags: their text is discarded with them
NonTextTags == {"script", "style", "textarea", "option"}

\* the chunks that hold only characters of a URL scheme, a letter first
SchemeChunks == {"http", "HTTP", "s", "S", "ftp", "mailto", "tel", "javascript"}

\* the place of the ':' that ends a URL scheme, 0 when the value has none
\* ( /^([a-zA-Z][a-zA-Z0-9.\-+]*):/ )
SchemeEnd(v) ==
    LET ends == {k \in 2..Len(v) : v[k] = ":" /\ \A j \in 1..(k - 1) : v[j] \in SchemeChunks}
    IN  IF ends = {} THEN 0 ELSE CHOOSE k \in ends : \A m \in ends : k <= m

\* the library's naughtyHref: a scheme outside allowedSchemes, in any letter
\* case; a value with no scheme (relative, or protocol-relative) passes
NaughtyHref(v) ==
    SchemeEnd(v) # 0 /\ ToLowerCase(SubSeq(v, 1, SchemeEnd(v) - 1)) \notin AllowedSchemes

\* the hostname of an absolute URL: the chunk after "//"
IframeSrcAllowed(v) ==
    /\ SchemeEnd(v) # 0
    /\ Len(v) >= SchemeEnd(v) + 2
    /\ v[SchemeEnd(v) + 1] = "//"
    /\ v[SchemeEnd(v) + 2] \in AllowedIframeHostnames

\* the parser's view of the attributes: names in lower case, the first of
\* two attributes of one name kept, values as written
ParseAttribs(attrs) ==
    LET first == {i \in DOMAIN attrs :
                     \A j \in 1..(i - 1) : LowerSym(attrs[j].n) # LowerSym(attrs[i].n)}
    IN  [k \in 1..Cardinality(first) |->
            LET i == CHOOSE i \in first : Cardinality({j \in first : j <= i}) = k
            IN  Attr(LowerSym(attrs[i].n), "dq", attrs[i].v)]

HasAttr(attrs, n) == \E i \in DOMAIN attrs : attrs[i].n = n
AttrValue(attrs, n) == attrs[CHOOSE i \in DOMAIN attrs : attrs[i].n = n].v

\* { ...attribs, [n]: v } : an attribute of that name is overwritten in
\* place, otherwise the attribute is added at the end
SetAttr(attrs, n, v) ==
    IF HasAttr(attrs, n)
    THEN [i \in DOMAIN attrs |-> IF attrs[i].n = n THEN Attr(n, "dq", v) ELSE attrs[i]]
    ELSE Append(attrs, Attr(n, "dq", v))

\* attribs.href && attribs.href.startsWith('http'), page.tsx:204
IsExternalHref(attrs) ==
    /\ HasAttr(attrs, "href")
    /\ AttrValue(attrs, "href") # <<>>
    /\ StartsWith(AttrValue(attrs, "href"), <<"http">>)

\* transformTags.a, page.tsx:203-215
TransformA(attrs) ==
    IF IsExternalHref(attrs)
    THEN SetAttr(SetAttr(attrs, "rel", <<"noopener noreferrer nofollow">>),
                 "target", <<"_blank">>)
    ELSE attrs

TransformTags(name, attrs) == IF name = "a" THEN TransformA(attrs) ELSE attrs

\* the attributes the library deletes when their value is empty (those of
\* its nonBooleanAttributes that the allow-lists name)
NonBooleanAttributes ==
    {"href", "src", "class", "style", "rel", "target", "alt", "width", "height", "name"}

\* whether the library keeps attribute a of tag name
KeepAttribute(name, a) ==
    /\ a.n \in AllowedAttributes(name)
    /\ ~(a.v = <<>> /\ a.n \in NonBooleanAttributes)
    /\ (a.n \in {"href", "src"} => ~NaughtyHref(a.v))
    /\ (name = "iframe" /\ a.n = "src" => IframeSrcAllowed(a.v))

\* the sanitizer with no attribute filter (allowedAttributes: false)
SanitizeOpenKeepingAttributes(tok) ==
    LET name == LowerSym(tok.name)
    IN  Open(name, TransformTags(name, ParseAttribs(tok.attrs)), FALSE)

SanitizeOpen(tok) ==
    LET name == LowerSym(tok.name)
        attribs == TransformTags(name, ParseAttribs(tok.attrs))
    IN  Open(name, SelectSeq(attribs, LAMBDA a : KeepAttribute(name, a)), FALSE)

\* the tokens from place i on; skip is the nonText tag being discarded ("" none)
RECURSIVE SanitizeFrom(_, _, _)
SanitizeFrom(html, i, skip) ==
    IF i > Len(html) THEN <<>>
    ELSE LET tok == html[i]
             name == LowerSym(tok.name)
         IN  IF skip # ""
             THEN SanitizeFrom(html, i + 1,
                               IF tok.t = "close" /\ name = skip THEN "" ELSE skip)
             ELSE IF tok.t = "text" THEN <<tok>> \o SanitizeFrom(html, i + 1, "")
             ELSE IF tok.t = "open"
             THEN IF name \in AllowedTags
                  THEN <<SanitizeOpen(tok)>> \o SanitizeFrom(html, i + 1, "")
                  ELSE SanitizeFrom(html, i + 1, IF name \in NonTextTags THEN name ELSE "")
             ELSE IF name \in AllowedTags
                  THEN <<Close(name)>> \o SanitizeFrom(html, i + 1, "")
                  ELSE SanitizeFrom(html, i + 1, "")

sanitizeHtml(html) == SanitizeFrom(html, 1, "")

-----------------------------------------------------------------------------
(* generateFAQSchema, page.tsx:232-272.  Offsets are counted in tokens from *)
(* 0, as the code counts characters from 0.                                 *)

NoSchema == [def |-> FALSE, mainEntity |-> <<>>]

NoNewline(tok) == \A k \in DOMAIN tok.s : tok.s[k] # "\n"

IsH2Close(tok) == tok.t = "close" /\ LowerSym(tok.name) = "h2"

\* /<h2[^>]*>(.*?)<\/h2>/gi from token i on: the places [from, to] of the
\* matches.  A match starts at an h2 opening tag and ends at the nearest
\* </h2>; '.' matches no line break, so a line break before that </h2> makes
\* the attempt at this tag fail and the scan goes on behind the tag
RECURSIVE HeadingSpans(_, _)
HeadingSpans(body, i) ==
    IF i > Len(body) THEN <<>>
    ELSE IF MatchesH2Open(body[i])
         THEN LET closes == {j \in (i + 1)..Len(body) : IsH2Close(body[j])}
              IN  IF closes = {} THEN HeadingSpans(body, i + 1)
                  ELSE LET j == CHOOSE j \in closes : \A m \in closes : j <= m
                       IN  IF \A k \in (i + 1)..(j - 1) : NoNewline(body[k])
                           THEN <<[from |-> i, to |-> j]>> \o HeadingSpans(body, j + 1)
                           ELSE HeadingSpans(body, i + 1)
         ELSE HeadingSpans(body, i + 1)

\* article.htmlBody.match(headingRegex) || [] : the matched strings
HeadingMatches(body) ==
    LET spans == HeadingSpans(body, 1)
    IN  [k \in DOMAIN spans |-> SubSeq(body, spans[k].from, spans[k].to)]

\* String.prototype.indexOf(sub, from): the first offset >= from where sub
\* stands, -1 when there is none
IndexOf(body, sub, from) ==
    LET at == {p \in from..(Len(body) - Len(sub)) :
                  SubSeq(body, p + 1, p + Len(sub)) = sub}
    IN  IF at = {} THEN -1 ELSE CHOOSE p \in at : \A m \in at : p <= m

\* String.prototype.substring(a, b): both ends clamped to the string, and
\* swapped when a > b
Substring(body, a, b) ==
    LET ca == IF a < 0 THEN 0 ELSE IF a > Len(body) THEN Len(body) ELSE a
        cb == IF b < 0 THEN 0 ELSE IF b > Len(body) THEN Len(body) ELSE b
        lo == IF ca <= cb THEN ca ELSE cb
        hi == IF ca <= cb THEN cb ELSE ca
    IN  SubSeq(body, lo + 1, hi)

\* String.prototype.trim
RECURSIVE TrimLeft(_)
TrimLeft(s) == IF s # <<>> /\ Head(s) \in Whitespace THEN TrimLeft(Tail(s)) ELSE s

RECURSIVE TrimRight(_)
TrimRight(s) ==
    IF s # <<>> /\ s[Len(s)] \in Whitespace THEN TrimRight(SubSeq(s, 1, Len(s) - 1)) ELSE s

Trim(s) == TrimRight(TrimLeft(s))

\* .replace(/\s+/g, ' ') : every run of whitespace becomes one blank
RECURSIVE CollapseWhitespace(_)
CollapseWhitespace(s) ==
    IF s = <<>> THEN <<>>
    ELSE IF Head(s) \in Whitespace
         THEN <<" ">> \o CollapseWhitespace(TrimLeft(s))
         ELSE <<Head(s)>> \o CollapseWhitespace(Tail(s))

\* .replace(/<[^>]+>/g, with) : every tag is replaced by the chunks `with`
StripTags(html, with) ==
    Flatten([i \in DOMAIN html |-> IF html[i].t = "text" THEN html[i].s ELSE with])

\* headingMatch.replace(/<[^>]+>/g, '').trim(), page.tsx:241
HeadingContent(headingMatch) == Trim(StripTags(headingMatch, <<>>))

\* page.tsx:243-251 for heading i of headingMatches
AnswerContent(body, headingMatches, i) ==
    LET headingMatch == headingMatches[i]
        startIndex == IndexOf(body, headingMatch, 0) + Len(headingMatch)
        endIndex == IF i < Len(headingMatches)
                    THEN IndexOf(body, headingMatches[i + 1], startIndex)
                    ELSE Len(body)
    IN  Trim(CollapseWhitespace(StripTags(Substring(body, startIndex, endIndex), <<" ">>)))

\* the loop of page.tsx:239-263: the items pushed for headings i, i+1, ...
RECURSIVE FaqItemsFrom(_, _, _)
FaqItemsFrom(body, headingMatches, i) ==
    IF i > Len(headingMatches) THEN <<>>
    ELSE LET answerContent == AnswerContent(body, headingMatches, i)
             rest == FaqItemsFrom(body, headingMatches, i + 1)
         IN  IF answerContent # <<>>
             THEN <<[name |-> HeadingContent(headingMatches[i]), text |-> answerContent]>> \o rest
             ELSE rest

generateFAQSchema(htmlBody) ==
    IF ~htmlBody.def \/ htmlBody.v = <<>> THEN NoSchema
    ELSE LET faqItems == FaqItemsFrom(htmlBody.v, HeadingMatches(htmlBody.v), 1)
         IN  IF Len(faqItems) > 0 THEN [def |-> TRUE, mainEntity |-> faqItems] ELSE NoSchema

-----------------------------------------------------------------------------
(* generateProductSchema, page.tsx:274-303 *)

NoProduct ==
    [def |-> FALSE, name |-> <<>>, description |-> <<>>, image |-> <<>>,
     keywordsForDog |-> FALSE, offerUrl |-> <<>>, priceCurrency |-> "", price |-> ""]

\* String.prototype.includes, page.tsx:277
Includes(s, chunk) == \E i \in DOMAIN s : s[i] = chunk

\* a || b on strings: b when a is missing or empty
OrElse(a, b) == IF a.def /\ a.v # <<>> THEN a ELSE b

\* the builder testing only for a missing link: an empty link gets a record
generateProductSchemaUnlessUndefined(a) ==
    IF ~a.amazon_link.def THEN NoProduct
    ELSE [def |-> TRUE,
          name |-> a.pageTitle.v,
          description |-> OrElse(a.metaDescription, a.description).v,
          image |-> a.featuredImageUrl.v,
          keywordsForDog |-> Includes(a.mainCategorySlug.v, "dog"),
          offerUrl |-> a.amazon_link.v,
          priceCurrency |-> "USD",
          price |-> "0"]

\* keywordsForDog is the argument handed to getKeywords (lib/seo-utils),
\* whose result is joined into the record's keywords
generateProductSchema(a) ==
    IF ~a.amazon_link.def \/ a.amazon_link.v = <<>> THEN NoProduct
    ELSE [def |-> TRUE,
          name |-> a.pageTitle.v,
          description |-> OrElse(a.metaDescription, a.description).v,
          image |-> a.featuredImageUrl.v,
          keywordsForDog |-> Includes(a.mainCategorySlug.v, "dog"),
          offerUrl |-> a.amazon_link.v,
          priceCurrency |-> "USD",
          price |-> "0"]

-----------------------------------------------------------------------------
(* BlogPostPage, page.tsx:116-505, from the article found on *)

NoContent == [kind |-> "none", html |-> <<>>]

\* <div className="text-red-500">Error loading content</div>, page.tsx:228
ErrorPlaceholder == [kind |-> "error", html |-> <<Text(<<"Error loading content">>)>>]

\* <div dangerouslySetInnerHTML={{ __html: sanitizedHtml }} />, page.tsx:219-225
Displayed(sanitizedHtml) == [kind |-> "html", html |-> sanitizedHtml]

\* const faqSchema = generateFAQSchema(), page.tsx:314
GenerateFAQSchema ==
    /\ pc = "faq"
    /\ faqSchema' = generateFAQSchema(article.htmlBody)
    /\ pc' = "product"
    /\ UNCHANGED <<article, internalLinks, productSchema, processedHtml, content>>

\* const productSchema = generateProductSchema(), page.tsx:315
GenerateProductSchema ==
    /\ pc = "product"
    /\ productSchema' = generateProductSchema(article)
    /\ pc' = "links"
    /\ UNCHANGED <<article, internalLinks, faqSchema, processedHtml, content>>

\* what parseInternalLinks reads: typedBlogData.internalLinks || []
LinkTable == IF internalLinks.def THEN internalLinks.v ELSE <<>>

\* page.tsx:161-163.  A preformatted body is taken as it is; html.replace on
\* a body that is not there throws
ResolveLinks ==
    /\ pc = "links"
    /\ IF article.isPreformatted
       THEN processedHtml' = article.htmlBody /\ pc' = "toppick"
       ELSE IF ~article.htmlBody.def
            THEN processedHtml' = processedHtml /\ pc' = "catch"
            ELSE /\ processedHtml' = Str(parseInternalLinks(article.htmlBody.v, LinkTable))
                 /\ pc' = "toppick"
    /\ UNCHANGED <<article, internalLinks, faqSchema, productSchema, content>>

\* page.tsx:165
AnnotateTopPick ==
    /\ pc = "toppick"
    /\ IF ~processedHtml.def
       THEN processedHtml' = processedHtml /\ pc' = "catch"
       ELSE processedHtml' = Str(addAsteriskToTopPick(processedHtml.v)) /\ pc' = "h2"
    /\ UNCHANGED <<article, internalLinks, faqSchema, productSchema, content>>

\* page.tsx:167-171
DecorateHeadings ==
    /\ pc = "h2"
    /\ processedHtml' = Str(decorateHeadings(processedHtml.v))
    /\ pc' = "sanitize"
    /\ UNCHANGED <<article, internalLinks, faqSchema, productSchema, content>>

\* page.tsx:173-225
Sanitize ==
    /\ pc = "sanitize"
    /\ content' = Displayed(sanitizeHtml(processedHtml.v))
    /\ pc' = "done"
    /\ UNCHANGED <<article, internalLinks, faqSchema, productSchema, processedHtml>>

\* renderArticleContent without its try/catch: the exception leaves the page
CatchErrorRethrows ==
    /\ pc = "catch"
    /\ pc' = "crashed"
    /\ UNCHANGED <<article, internalLinks, faqSchema, productSchema, processedHtml, content>>

\* the catch block, page.tsx:226-229
CatchError ==
    /\ pc = "catch"
    /\ content' = ErrorPlaceholder
    /\ pc' = "done"
    /\ UNCHANGED <<article, internalLinks, faqSchema, productSchema, processedHtml>>

Next ==
    \/ GenerateFAQSchema
    \/ GenerateProductSchema
    \/ ResolveLinks
    \/ AnnotateTopPick
    \/ DecorateHeadings
    \/ Sanitize
    \/ CatchError

-----------------------------------------------------------------------------
(* The articles and link tables the specifications start from *)

Bodies(blocks, n) == {Str(Flatten(bs)) : bs \in SeqsUpTo(blocks, n)}

\* an article: the fields the page's functions read (page.tsx:28-52)
Article(b, p, l, title, meta, desc, image, slug) ==
    [htmlBody |-> b, isPreformatted |-> p, amazon_link |-> l, pageTitle |-> title,
     metaDescription |-> meta, description |-> desc, featuredImageUrl |-> image,
     mainCategorySlug |-> slug]

Articles(bodies, links) ==
    {Article(b, p, l, Str(<<"Best", " ", "Feeders">>), Str(<<"Meta">>), Str(<<"Description">>),
             Str(<<"/images/feeder.png">>), Str(<<"smart-", "dog", "-feeders">>)) :
        b \in bodies, p \in BOOLEAN, l \in links}

AmazonLinks == {Undefined, Str(<<"http", "s", ":", "//", "amzn.to", "/x">>)}

InitPage ==
    /\ pc = "faq"
    /\ faqSchema = NoSchema
    /\ productSchema = NoProduct
    /\ processedHtml = Undefined
    /\ content = NoContent

Placeholder(name, q, id, slash) == Open(name, <<Attr("id", q, id)>>, slash)

\* placeholders in every form of tag case, quoting and closing, and plain text
LinkBlocks ==
    { <<Placeholder("InternalLink", "dq", <<"about">>, TRUE)>>,
      <<Placeholder("internallink", "sq", <<"ABOUT">>, TRUE)>>,
      <<Placeholder("INTERNALLINK", "none", <<"About">>, TRUE)>>,
      <<Placeholder("InternalLink", "dq", <<"Missing">>, TRUE)>>,
      <<Placeholder("InternalLink", "dq", <<"about">>, FALSE)>>,
      <<Placeholder("internallink", "none", <<"Missing">>, FALSE)>>,
      <<Text(<<"hello">>)>>,
      <<Text(<<TopPickPhrase>>)>> }

\* no table, the table of the spec's example, and a table whose two ids
\* differ only in letter case
LinkTables ==
    { Undefined,
      Str(<< [id |-> <<"about">>, url |-> <<"/about">>, text |-> <<"About", " ", "Us">>] >>),
      Str(<< [id |-> <<"ABOUT">>, url |-> <<"/old">>, text |-> <<"Old">>],
             [id |-> <<"About">>, url |-> <<"http", "s", ":", "//", "ex.com", "/about">>,
              text |-> <<"About">>] >>) }

Init ==
    /\ article \in Articles({Undefined} \cup Bodies(LinkBlocks, MaxBlocks), AmazonLinks)
    /\ internalLinks \in LinkTables
    /\ InitPage

Spec == Init /\ [][Next]_vars

-----------------------------------------------------------------------------
(* Internal links: C1, C2, C3 *)

\* a placeholder in one of the forms the specification names: the tag in any
\* letter case, the id bare or quoted, with or without the closing slash
IsPlaceholder(tok) ==
    /\ tok.t = "open"
    /\ LowerSym(tok.name) = "internallink"
    /\ Len(tok.attrs) = 1
    /\ tok.attrs[1].n = "id"
    /\ tok.attrs[1].v # <<>>

PlaceholderId(tok) == tok.attrs[1].v

\* the lowercase form of id is a key of the link table
KeyInTable(id) == \E k \in DOMAIN LinkTable : ToLowerCase(LinkTable[k].id) = ToLowerCase(id)

\* the table's entry for id (the last one, should two ids differ in case only)
TableLink(id) ==
    LET hits == {k \in DOMAIN LinkTable : ToLowerCase(LinkTable[k].id) = ToLowerCase(id)}
    IN  LinkTable[CHOOSE k \in hits : \A m \in hits : m <= k]

\* at place p of html stands <a href=url class="internal-link">text</a>
IsAnchorAt(html, p, link) ==
    /\ p + 2 <= Len(html)
    /\ html[p].t = "open" /\ html[p].name = "a"
    /\ HasAttr(html[p].attrs, "href") /\ AttrValue(html[p].attrs, "href") = link.url
    /\ HasAttr(html[p].attrs, "class")
    /\ AttrValue(html[p].attrs, "class") = <<"internal-link">>
    /\ html[p + 1] = Text(link.text)
    /\ html[p + 2] = Close("a")

\* at place p of html stands <span class="broken-link">[Broken Link: id]</span>
IsMarkerAt(html, p, id) ==
    /\ p + 2 <= Len(html)
    /\ html[p].t = "open" /\ html[p].name = "span"
    /\ HasAttr(html[p].attrs, "class")
    /\ AttrValue(html[p].attrs, "class") = <<"broken-link">>
    /\ html[p + 1] = Text(<<"[Broken Link: ">> \o id \o <<"]">>)
    /\ html[p + 2] = Close("span")

\* the places of html where the anchor or the marker of placeholder tok stands
RenderedAt(html, tok) ==
    {p \in DOMAIN html :
        IF KeyInTable(PlaceholderId(tok))
        THEN IsAnchorAt(html, p, TableLink(PlaceholderId(tok)))
        ELSE IsMarkerAt(html, p, PlaceholderId(tok))}

\* two placeholders that are rendered alike
SameRendering(t1, t2) ==
    IF KeyInTable(PlaceholderId(t1))
    THEN KeyInTable(PlaceholderId(t2))
         /\ ToLowerCase(PlaceholderId(t1)) = ToLowerCase(PlaceholderId(t2))
    ELSE PlaceholderId(t1) = PlaceholderId(t2)

\* where the replacement of token i of the body starts in the output of
\* parseInternalLinks: three tokens stand for every placeholder before it
OutPos(body, i) ==
    i + 2 * Cardinality({j \in 1..(i - 1) : IsPlaceholder(body[j]) /\ body[j].slash})

C2_ResolvedAnchor ==
    (pc = "toppick" /\ ~article.isPreformatted) =>
        \A i \in DOMAIN article.htmlBody.v :
            LET body == article.htmlBody.v
            IN  (IsPlaceholder(body[i]) /\ body[i].slash /\ KeyInTable(PlaceholderId(body[i]))) =>
                    IsAnchorAt(processedHtml.v, OutPos(body, i), TableLink(PlaceholderId(body[i])))

C2_Witness ==
    /\ pc = "toppick" /\ ~article.isPreformatted
    /\ \E i \in DOMAIN article.htmlBody.v :
          LET body == article.htmlBody.v
          IN  /\ IsPlaceholder(body[i]) /\ body[i].slash
              /\ PlaceholderId(body[i]) # ToLowerCase(PlaceholderId(body[i]))
              /\ KeyInTable(PlaceholderId(body[i]))
              /\ IsAnchorAt(processedHtml.v, OutPos(body, i), TableLink(PlaceholderId(body[i])))

\* C3: a placeholder whose id, in lower case, is no key of the link table
\* (or there is no table) is replaced by parseInternalLinks with the
\* broken-link marker holding the id as written, and parseInternalLinks does
\* not throw on a body that is a string
C3_BrokenLinkMarker ==
    /\ (pc = "catch" /\ ~article.isPreformatted) => ~article.htmlBody.def
    /\ (pc = "toppick" /\ ~article.isPreformatted) =>
          \A i \in DOMAIN article.htmlBody.v :
              LET body == article.htmlBody.v
              IN  (IsPlaceholder(body[i]) /\ body[i].slash /\ ~KeyInTable(PlaceholderId(body[i]))) =>
                      IsMarkerAt(processedHtml.v, OutPos(body, i), PlaceholderId(body[i]))

C3_Witness ==
    /\ pc = "toppick" /\ ~article.isPreformatted /\ ~internalLinks.def
    /\ \E i \in DOMAIN article.htmlBody.v :
          LET body == article.htmlBody.v
          IN  /\ IsPlaceholder(body[i]) /\ body[i].slash
              /\ PlaceholderId(body[i]) # ToLowerCase(PlaceholderId(body[i]))
              /\ IsMarkerAt(processedHtml.v, OutPos(body, i), PlaceholderId(body[i]))

-----------------------------------------------------------------------------
(* The sanitizer: C4, C5, C6 *)

Url(scheme, host, path) == scheme \o <<":", "//", host, path>>

Elem(name, attrs, text) == <<Open(name, attrs, FALSE), Text(<<text>>), Close(name)>>

\* links of every kind of href, frames, a script, an image, a drawing, a table
SanBlocks ==
    { Elem("a", <<Attr("href", "dq", Url(<<"http", "s">>, "ex.com", "/x"))>>, "secure"),
      Elem("a", <<Attr("href", "dq", Url(<<"HTTP">>, "ex.com", "/x")),
                  Attr("rel", "dq", <<"author">>)>>, "upper"),
      Elem("A", <<Attr("HREF", "sq", Url(<<"http">>, "ex.com", "/x")),
                  Attr("REL", "sq", <<"author">>),
                  Attr("TARGET", "sq", <<"_top">>)>>, "plain"),
      Elem("a", <<Attr("href", "dq", <<"/about">>),
                  Attr("target", "dq", <<"_self">>),
                  Attr("onclick", "dq", <<"x()">>)>>, "relative"),
      Elem("a", <<Attr("href", "dq", <<"http", "-tips.html">>)>>, "tips"),
      Elem("a", <<Attr("href", "dq", <<"mailto", ":", "a@b.c">>)>>, "mail"),
      Elem("a", <<Attr("href", "dq", <<"javascript", ":", "alert(1)">>)>>, "js"),
      Elem("iframe", <<Attr("src", "dq", Url(<<"http", "s">>, "www.youtube.com", "/embed/x")),
                       Attr("width", "dq", <<"560">>)>>, ""),
      Elem("iframe", <<Attr("src", "dq", Url(<<"http", "s">>, "evil.example", "/x"))>>, ""),
      Elem("script", <<>>, "alert(1)"),
      << Open("img", <<Attr("src", "dq", <<"/a.png">>), Attr("onerror", "dq", <<"x()">>)>>, TRUE) >>,
      << Open("svg", <<Attr("width", "dq", <<"10">>)>>, FALSE),
         Open("circle", <<Attr("r", "dq", <<"1">>), Attr("onload", "dq", <<"x()">>)>>, TRUE),
         Close("circle"), Close("svg") >>,
      << Open("table", <<Attr("border", "dq", <<"1">>)>>, FALSE), Open("tr", <<>>, FALSE),
         Open("td", <<Attr("style", "dq", <<"width:1px">>)>>, FALSE), Text(<<"cell">>),
         Close("td"), Close("tr"), Close("table") >>,
      Elem("h2", <<Attr("id", "dq", <<"top">>)>>, "Heading") }

InitSanitize ==
    /\ article \in Articles({Undefined} \cup Bodies(SanBlocks, MaxSanBlocks), {Undefined})
    /\ internalLinks \in {Undefined}
    /\ InitPage

SpecSanitize == InitSanitize /\ [][Next]_vars

\* the HTML handed to the first transform step that runs
RawHtml ==
    IF article.isPreformatted THEN article.htmlBody.v
    ELSE parseInternalLinks(article.htmlBody.v, LinkTable)

TagTokens(html) == {i \in DOMAIN html : html[i].t # "text"}

\* every tag of html and every attribute of it is on the configured lists
WithinAllowLists(html) ==
    \A i \in TagTokens(html) :
        /\ html[i].name \in AllowedTags
        /\ \A k \in DOMAIN html[i].attrs : html[i].attrs[k].n \in AllowedAttributes(html[i].name)

\* C4: in every article, preformatted or not, the HTML displayed is what the
\* sanitizer made of the HTML after link resolution, top-pick annotation and
\* heading decoration (in that order), and it holds no tag and no attribute
\* outside the allow-lists
C4_SanitizerRunsLast ==
    (pc = "done" /\ content.kind = "html") =>
        /\ processedHtml.v = decorateHeadings(addAsteriskToTopPick(RawHtml))
        /\ content.html = sanitizeHtml(processedHtml.v)
        /\ WithinAllowLists(content.html)

C4_Witness ==
    /\ pc = "done" /\ content.kind = "html"
    /\ ~WithinAllowLists(processedHtml.v)
    /\ \E i \in DOMAIN processedHtml.v :
          /\ MatchesH2Open(processedHtml.v[i])
          /\ HasAttr(processedHtml.v[i].attrs, "id")
    /\ \E i \in DOMAIN processedHtml.v : processedHtml.v[i].name = "script"
    /\ \E p \in DOMAIN content.html :
          /\ content.html[p].name = "h2" /\ content.html[p].t = "open"
          /\ HasAttr(content.html[p].attrs, "class")

IsOpenTag(tok, name) == tok.t = "open" /\ LowerSym(tok.name) = name

\* the hostname of a frame's src is one of the two named hostnames
NamedHostname(tok) ==
    /\ HasAttr(tok.attrs, "src")
    /\ \E k \in DOMAIN AttrValue(tok.attrs, "src") :
          AttrValue(tok.attrs, "src")[k] \in {"www.youtube.com", "player.vimeo.com"}

\* C5 as stated: a frame whose src hostname is one of the two named ones is
\* kept in the sanitized output with its src, a frame of another hostname is
\* not, and images, drawings and tables are kept
C5_VideoFramesKept ==
    (pc = "done" /\ content.kind = "html") =>
        /\ \A i \in DOMAIN processedHtml.v :
              LET tok == processedHtml.v[i]
              IN  /\ (IsOpenTag(tok, "iframe") /\ NamedHostname(tok)) =>
                        \E p \in DOMAIN content.html :
                            /\ IsOpenTag(content.html[p], "iframe")
                            /\ HasAttr(content.html[p].attrs, "src")
                            /\ AttrValue(content.html[p].attrs, "src") = AttrValue(tok.attrs, "src")
                  /\ (\E n \in {"img", "svg", "circle", "table", "tr", "td"} : IsOpenTag(tok, n)) =>
                        \E p \in DOMAIN content.html : IsOpenTag(content.html[p], LowerSym(tok.name))
        /\ \A p \in DOMAIN content.html :
              (IsOpenTag(content.html[p], "iframe") /\ HasAttr(content.html[p].attrs, "src")) =>
                  NamedHostname(content.html[p])

\* an href that begins with a URL scheme, in any letter case
HasScheme(href) == SchemeEnd(href) # 0

RelRequired == <<"noopener noreferrer nofollow">>
TargetRequired == <<"_blank">>

CarriesRelAndTarget(tok) ==
    /\ HasAttr(tok.attrs, "rel") /\ AttrValue(tok.attrs, "rel") = RelRequired
    /\ HasAttr(tok.attrs, "target") /\ AttrValue(tok.attrs, "target") = TargetRequired

\* C6 as stated: every anchor of the sanitized output whose href begins with
\* a URL scheme carries rel="noopener noreferrer nofollow" and
\* target="_blank", and an anchor with a relative href carries neither
C6_ExternalLinksMarked ==
    (pc = "done" /\ content.kind = "html") =>
        \A p \in DOMAIN content.html :
            LET tok == content.html[p]
            IN  (IsOpenTag(tok, "a") /\ HasAttr(tok.attrs, "href")) =>
                    IF HasScheme(AttrValue(tok.attrs, "href"))
                    THEN CarriesRelAndTarget(tok)
                    ELSE /\ ~(HasAttr(tok.attrs, "rel") /\ AttrValue(tok.attrs, "rel") = RelRequired)
                         /\ ~(HasAttr(tok.attrs, "target")
                              /\ AttrValue(tok.attrs, "target") = TargetRequired)

-----------------------------------------------------------------------------
(* Headings: C7, C8, C9 *)

\* headings with and without attributes, one spanning two lines, paragraphs
\* and blank text
FaqBlocks ==
    { Elem("h2", <<>>, "Intro"),
      << Open("H2", <<Attr("class", "dq", <<"x">>), Attr("id", "dq", <<"faq">>)>>, FALSE),
         Text(<<" ", "FAQ">>), Close("H2") >>,
      << Open("h2", <<>>, FALSE), Text(<<"Two", "\n", "lines">>), Close("h2") >>,
      Elem("p", <<>>, "hello"),
      << Open("p", <<>>, FALSE), Text(<<"the", " ", "\n", " ", "answer">>), Close("p") >>,
      << Text(<<" ">>) >> }

InitHeadings ==
    /\ article \in Articles({Undefined} \cup Bodies(FaqBlocks, MaxFaqBlocks), {Undefined})
    /\ internalLinks \in {Undefined}
    /\ InitPage

SpecHeadings == InitHeadings /\ [][Next]_vars

\* the <h2> headings of a body in document order, as places [from, to]: each
\* runs from an h2 opening tag to the nearest </h2> behind it
RECURSIVE Headings(_, _)
Headings(body, i) ==
    IF i > Len(body) THEN <<>>
    ELSE LET closes == {j \in (i + 1)..Len(body) : IsH2Close(body[j])}
         IN  IF MatchesH2Open(body[i]) /\ closes # {}
             THEN LET j == CHOOSE j \in closes : \A m \in closes : j <= m
                  IN  <<[from |-> i, to |-> j]>> \o Headings(body, j + 1)
             ELSE Headings(body, i + 1)

\* the text between the end of heading k and the start of the next heading
\* (the end of the body for the last), markup stripped, whitespace collapsed
AnswerOf(body, hs, k) ==
    LET stop == IF k < Len(hs) THEN hs[k + 1].from - 1 ELSE Len(body)
    IN  Trim(CollapseWhitespace(StripTags(SubSeq(body, hs[k].to + 1, stop), <<" ">>)))

QuestionOf(body, hs, k) == Trim(StripTags(SubSeq(body, hs[k].from, hs[k].to), <<>>))

\* the items the headings of a body call for, in document order
RECURSIVE ItemsOf(_, _, _)
ItemsOf(body, hs, k) ==
    IF k > Len(hs) THEN <<>>
    ELSE IF AnswerOf(body, hs, k) # <<>>
         THEN <<[name |-> QuestionOf(body, hs, k), text |-> AnswerOf(body, hs, k)]>>
              \o ItemsOf(body, hs, k + 1)
         ELSE ItemsOf(body, hs, k + 1)

FaqDone == pc # "faq" /\ article.htmlBody.def

\* C7 as stated: generateFAQSchema yields one item for every <h2> heading
\* whose answer text is not empty and none for the others, also when two
\* headings have the same markup, and null when no item remains
C7_OneItemPerAnsweredHeading ==
    FaqDone =>
        LET body == article.htmlBody.v
            hs == Headings(body, 1)
            answered == {k \in DOMAIN hs : AnswerOf(body, hs, k) # <<>>}
        IN  /\ Len(faqSchema.mainEntity) = Cardinality(answered)
            /\ faqSchema.def <=> answered # {}

\* C8 as stated: item by item, the question is the heading's text and the
\* answer is the text between that heading's own occurrence and the next
\* heading, also when the same heading markup stands earlier in the body
C8_AnswerBetweenHeadings ==
    FaqDone =>
        faqSchema.mainEntity = ItemsOf(article.htmlBody.v, Headings(article.htmlBody.v, 1), 1)

AttrCount(attrs, n) == Cardinality({k \in DOMAIN attrs : LowerSym(attrs[k].n) = n})

HasClassToken(attrs, token) ==
    \E k \in DOMAIN attrs :
        /\ LowerSym(attrs[k].n) = "class"
        /\ \E m \in DOMAIN attrs[k].v : attrs[k].v[m] = token

\* what the decorator may do to one token
DecoratedAs(before, after) ==
    IF MatchesH2Open(before)
    THEN /\ MatchesH2Open(after)
         /\ HasClassToken(after.attrs, "blog-heading")
         /\ \A k \in DOMAIN before.attrs :
               /\ AttrCount(after.attrs, LowerSym(before.attrs[k].n)) = 1
               /\ \E m \in DOMAIN after.attrs :
                     /\ after.attrs[m].n = before.attrs[k].n
                     /\ (after.attrs[m].n # "class" => after.attrs[m].v = before.attrs[k].v)
                     /\ (after.attrs[m].n = "class" =>
                            \A c \in DOMAIN before.attrs[k].v :
                                HasClassToken(<<after.attrs[m]>>, before.attrs[k].v[c]))
    ELSE after = before

\* C9 as stated: the heading decorator gives every h2 opening tag the class
\* token blog-heading, keeps every attribute the tag had, each exactly once
\* (an existing class attribute too), and changes no other tag
C9_DecoratorKeepsAttributes ==
    [][pc = "h2" =>
          /\ Len(processedHtml'.v) = Len(processedHtml.v)
          /\ \A i \in DOMAIN processedHtml.v :
                DecoratedAs(processedHtml.v[i], processedHtml'.v[i])]_vars

-----------------------------------------------------------------------------
(* Failure of the transform chain: C10 *)

PagePositions == {"faq", "product", "links", "toppick", "h2", "sanitize", "catch", "done"}

\* C10: when a step of the transform chain throws, the exception stays in
\* renderArticleContent: the page goes on, the content region shows the
\* error placeholder and no HTML of the failed chain, and the FAQ and product
\* objects are what they are without the failure
C10_FailureContained ==
    /\ pc \in PagePositions
    /\ pc = "catch" => content = NoContent
    /\ ~article.htmlBody.def => pc \notin {"h2", "sanitize"}
    /\ pc = "done" =>
          /\ content.kind = "error" <=> ~article.htmlBody.def
          /\ content.kind = "error" =>
                /\ content = ErrorPlaceholder
                /\ faqSchema = generateFAQSchema(article.htmlBody)
                /\ productSchema = generateProductSchema(article)

C10_Witness ==
    /\ pc = "done"
    /\ article.isPreformatted
    /\ content = ErrorPlaceholder
    /\ productSchema.def
    /\ productSchema.offerUrl = article.amazon_link.v

-----------------------------------------------------------------------------
(* The product schema: C11 *)

\* no link, an empty link and two links
ProductLinks ==
    { Undefined, Str(<<>>),
      Str(<<"http", "s", ":", "//", "amzn.to", "/x">>),
      Str(<<"http", "s", ":", "//", "www.amazon.com", "/dp/B0B1TMLL3F">>) }

\* articles that differ in every field generateProductSchema reads
ProductArticles ==
    {Article(b, p, l, title, meta, desc, image, slug) :
        b \in {Undefined} \cup Bodies({<<Text(<<"hello">>)>>}, MaxBlocks),
        p \in BOOLEAN,
        l \in ProductLinks,
        title \in {Str(<<"Best", " ", "Feeders">>), Str(<<"Cat", " ", "Toys">>)},
        meta \in {Undefined, Str(<<>>), Str(<<"Meta">>)},
        desc \in {Str(<<"Description">>), Str(<<"Other">>)},
        image \in {Str(<<"/images/feeder.png">>), Str(<<"/images/toy.png">>)},
        slug \in {Str(<<"smart-", "dog", "-feeders">>), Str(<<"cat", "-toys">>)}}

InitProduct ==
    /\ article \in ProductArticles
    /\ internalLinks \in {Undefined}
    /\ InitPage

SpecProduct == InitProduct /\ [][Next]_vars

HasAffiliateLink(a) == a.amazon_link.def /\ a.amazon_link.v # <<>>

ProductDone == pc \notin {"faq", "product"}

\* C11: generateProductSchema returns null exactly when amazon_link is
\* missing or empty; otherwise the record's offer url is the article's link
\* and its price is "0", and both are the same for every article with that
\* link, whatever its other fields
C11_ProductSchema ==
    ProductDone =>
        /\ productSchema.def <=> HasAffiliateLink(article)
        /\ ~productSchema.def => productSchema = NoProduct
        /\ productSchema.def =>
              /\ productSchema.offerUrl = article.amazon_link.v
              /\ productSchema.price = "0"
        /\ \A other \in ProductArticles :
              other.amazon_link = article.amazon_link =>
                  /\ generateProductSchema(other).def = productSchema.def
                  /\ generateProductSchema(other).offerUrl = productSchema.offerUrl
                  /\ generateProductSchema(other).price = productSchema.price

\* both outcomes are reached: a record for a link, null for an empty link
C11_Witness ==
    /\ ProductDone
    /\ productSchema.def
    /\ productSchema.offerUrl = <<"http", "s", ":", "//", "www.amazon.com", "/dp/B0B1TMLL3F">>
    /\ productSchema.price = "0"
    /\ productSchema.name = <<"Cat", " ", "Toys">>
    /\ ~article.metaDescription.def
    /\ generateProductSchema([article EXCEPT !.amazon_link = Str(<<>>)]) = NoProduct

=============================================================================
